---- MODULE Spec2Model ----
(***************************************************************************)
(* Catalog aggregation and fallback pipeline of the movie controller:      *)
(* getMovies / getMoviesFromTmdb, the upstream health state, the store     *)
(* path and the seed catalog.                                              *)
(***************************************************************************)
EXTENDS Integers, Sequences, FiniteSets, TLC

VARIABLES
  now,                \* Date.now(), in ms
  tmdbDisabledUntil,  \* module-level health state
  tmdbFailureStreak,  \* module-level health state
  apiKey,             \* process.env.TMDB_API_KEY is set
  readyState,         \* mongoose.connection.readyState
  tmdb,               \* what the upstream provider currently serves
  req,                \* the listing requests in flight, per request slot
  cooldownUntil,      \* history: the latest now + TMDB_COOLDOWN_MS a failure set
  trailer,            \* the trailer-lookup request (getTmdbTrailer)
  norm,               \* a source record and what a normalization function made of it
  fetch,              \* one call of tmdbFetch
  collection,         \* the documents of the Movie collection
  crud                \* the last single-item or CRUD request and its outcome

vars == <<now, tmdbDisabledUntil, tmdbFailureStreak, apiKey, readyState, tmdb, req,
          cooldownUntil, trailer, norm, fetch, collection, crud>>

----------------------------------------------------------------------------
(* Bounds and constants *)

TMDB_COOLDOWN_MS == 300000
ClockStep == TMDB_COOLDOWN_MS \div 2
MaxTicks == 4
NumFixedCategories == 3

Min(a, b) == IF a < b THEN a ELSE b
Max(a, b) == IF a > b THEN a ELSE b

Requests == {1, 2}
SeqRequests == {1}


----------------------------------------------------------------------------
(* Query-string values and their numeric conversion *)

\* A query-string parameter that is read as a number: missing, the empty
\* string, a non-numeric string, or the numeral of an integer v.
Undefined == [kind |-> "undefined", v |-> 0]
Empty == [kind |-> "empty", v |-> 0]
Text == [kind |-> "text", v |-> 0]
Num(n) == [kind |-> "num", v |-> n]

\* Number(x): NaN for undefined and for a non-numeric string, 0 for ''.
Number(x) ==
  CASE x.kind = "num" -> [nan |-> FALSE, v |-> x.v]
    [] x.kind = "empty" -> [nan |-> FALSE, v |-> 0]
    [] OTHER -> [nan |-> TRUE, v |-> 0]

\* n || d : NaN and 0 are falsy.
OrDefault(n, d) == IF n.nan \/ n.v = 0 THEN d ELSE n.v

\* Mutant: the lower clamp is missing.
perCategory_noLowerClamp(query) == Min(OrDefault(Number(query.perCategory), 16), 40)

\* Mutant: the size of each category is taken from the limit parameter.
perCategory_fromLimit(query) == Min(Max(OrDefault(Number(query.limit), 16), 6), 40)

\* const perCategory = Math.min(Math.max(Number(req.query.perCategory) || 16, 6), 40)
perCategory(query) == Min(Max(OrDefault(Number(query.perCategory), 16), 6), 40)

\* const { ..., limit = '200' } = req.query
limit(query) == IF query.limit.kind = "undefined" THEN Num(200) ELSE query.limit

\* Mutant: the lower clamp is missing.
cappedLimit_noLowerClamp(query) == Min(OrDefault(Number(limit(query)), 50), 500)

\* const cappedLimit = Math.min(Math.max(Number(limit) || 50, 1), 500)
cappedLimit(query) == Min(Max(OrDefault(Number(limit(query)), 50), 1), 500)

\* String.prototype.trim on the strings the model uses.
Trim(s) ==
  CASE s = " movie " -> "movie"
    [] s = " " -> ""
    [] s = " Action " -> "Action"
    [] OTHER -> s

\* String.prototype.toLowerCase on the strings the model uses.
LowerCase(s) ==
  CASE s = "Action" -> "action"
    [] s = "Animation" -> "animation"
    [] s = "Red Dawn" -> "red dawn"
    [] s = "Night Shift" -> "night shift"
    [] s = "Red Tide" -> "red tide"
    [] s = "RED" -> "red"
    [] s = "Drama" -> "drama"
    [] s = "Heat" -> "heat"
    [] s = "Alien" -> "alien"
    [] s = "Jaws" -> "jaws"
    [] s = "Up" -> "up"
    [] s = "Movie" -> "movie"
    [] OTHER -> s

\* String.prototype.includes on the strings the model uses.
Includes(s, sub) ==
  CASE sub = "" -> TRUE
    [] sub = s -> TRUE
    [] sub = "red" -> s \in {"red dawn", "red tide"}
    [] sub = "shift" -> s = "night shift"
    [] OTHER -> FALSE

\* The query of a listing request.
Query(source, perCat, lim, type) ==
  [source |-> source, perCategory |-> perCat, limit |-> lim,
   search |-> "", category |-> "", type |-> type, featured |-> ""]

\* A query that only filters.
FilterQuery(type, category, search, featured, lim) ==
  [source |-> "", perCategory |-> Undefined, limit |-> lim,
   search |-> search, category |-> category, type |-> type, featured |-> featured]

TypeValues == {"", "movie", "series", " movie ", " ", "Movie"}
CategoryValues == {"", "Action", " Action "}
SearchValues == {"", "RED", "shift"}
FeaturedValues == {"", "true", "false"}

FilterQueries ==
  {FilterQuery(t, c, s, f, l) :
     t \in TypeValues, c \in CategoryValues, s \in SearchValues, f \in FeaturedValues,
     l \in {Undefined, Num(2)}}

PerCategoryValues == {Undefined, Empty, Text, Num(0), Num(3), Num(7), Num(500)}
LimitValues == {Undefined, Empty, Text, Num(0), Num(-5), Num(2), Num(500)}

Queries ==
  {Query("", p, Undefined, "") : p \in PerCategoryValues}
    \cup {Query(s, Undefined, l, "") : s \in {"", "db"}, l \in LimitValues}
    \cup {Query("db", Undefined, Num(2), "movie"), Query("", Undefined, Num(5), "movie")}

----------------------------------------------------------------------------
(* Normalization layer.  A ContentRecord keeps the fields the properties    *)
(* read: id (as its '-'-separated segments), title, category, type,         *)
(* trailerUrl, featured; origin names the function that built the record.   *)

\* The words of a lower-cased title: split on /\s+/.
Words(s) ==
  CASE s = "red dawn" -> <<"red", "dawn">>
    [] s = "night shift" -> <<"night", "shift">>
    [] s = "red tide" -> <<"red", "tide">>
    [] OTHER -> <<s>>

\* Decimal numeral of an external id.
Numeral(n) == ToString(n)

TrailerUrlOf(key) == "https://www.youtube.com/embed/key"

\* Mutant: every item is given a trailer URL.
TrailerLookup_always(trailerMap, key) == TrailerUrlOf(key)

\* trailerMap.get(key) || ''
TrailerLookup(trailerMap, key) == IF key \in trailerMap THEN TrailerUrlOf(key) ELSE ""

mapTmdbItem(item, category, type, trailerMap, isFeatured) ==
  [id |-> <<"tmdb", type, Numeral(item)>>,
   title |-> "Untitled",
   category |-> category,
   type |-> type,
   trailerUrl |-> TrailerLookup(trailerMap, <<type, item>>),
   featured |-> isFeatured,
   origin |-> "tmdb"]

normalizeMovie(movie) ==
  [id |-> <<movie._id>>,
   title |-> movie.title,
   category |-> movie.category,
   type |-> movie.type,
   trailerUrl |-> movie.trailerUrl,
   featured |-> movie.featured,
   origin |-> "store"]

\* Mutant: the seed id is the hyphenated title alone.
normalizeSeedMovie_noPrefix(movie) ==
  [id |-> Words(LowerCase(movie.title)),
   title |-> movie.title,
   category |-> movie.category,
   type |-> movie.type,
   trailerUrl |-> movie.trailerUrl,
   featured |-> movie.featured,
   origin |-> "seed"]

\* id: `seed-${movie.title.toLowerCase().replace(/\s+/g, '-')}`
normalizeSeedMovie(movie) ==
  [id |-> <<"seed">> \o Words(LowerCase(movie.title)),
   title |-> movie.title,
   category |-> movie.category,
   type |-> movie.type,
   trailerUrl |-> movie.trailerUrl,
   featured |-> movie.featured,
   origin |-> "seed"]

MapSeq(F(_), s) == [i \in 1..Len(s) |-> F(s[i])]

\* Array.prototype.slice(0, n)
Slice(s, n) == SubSeq(s, 1, Min(Len(s), Max(n, 0)))

----------------------------------------------------------------------------
(* Seed catalog and persistent store *)

seedMovies ==
  << [title |-> "Red Dawn", category |-> "Action", type |-> "movie",
      trailerUrl |-> "t1", featured |-> TRUE],
     [title |-> "Night Shift", category |-> "Drama", type |-> "series",
      trailerUrl |-> "t2", featured |-> FALSE],
     [title |-> "Red Tide", category |-> "Action", type |-> "movie",
      trailerUrl |-> "t3", featured |-> FALSE],
     [title |-> "Heat", category |-> "Action", type |-> "movie",
      trailerUrl |-> "t4", featured |-> FALSE],
     [title |-> "Alien", category |-> "Drama", type |-> "movie",
      trailerUrl |-> "t5", featured |-> FALSE],
     [title |-> "Jaws", category |-> "Drama", type |-> "movie",
      trailerUrl |-> "t6", featured |-> TRUE],
     [title |-> "Up", category |-> "Drama", type |-> "movie",
      trailerUrl |-> "t7", featured |-> FALSE] >>

\* The documents of the Movie collection (the seed script inserts seedMovies).
movieCollection ==
  { [_id |-> "65a1", title |-> "Red Dawn", category |-> "Action", type |-> "movie",
     trailerUrl |-> "t1", featured |-> TRUE, createdAt |-> 1],
    [_id |-> "65a2", title |-> "Night Shift", category |-> "Drama", type |-> "series",
     trailerUrl |-> "t2", featured |-> FALSE, createdAt |-> 2],
    [_id |-> "65a3", title |-> "Red Tide", category |-> "Action", type |-> "movie",
     trailerUrl |-> "t3", featured |-> FALSE, createdAt |-> 3] }

\* The filter object built from the query.
BuildFilter(query) ==
  [hasText |-> Trim(query.search) # "", text |-> Trim(query.search),
   hasCategory |-> Trim(query.category) # "", category |-> Trim(query.category),
   hasType |-> Trim(query.type) # "", type |-> Trim(query.type),
   hasFeatured |-> query.featured \in {"true", "false"},
   featured |-> query.featured = "true"]

\* $text search over the text index {title, description, category}.
TextMatches(doc, text) ==
  LET ws == Words(LowerCase(doc.title))
  IN LowerCase(text) \in ({ws[i] : i \in 1..Len(ws)} \cup {LowerCase(doc.category)})

FilterMatches(doc, filter) ==
  /\ filter.hasText => TextMatches(doc, filter.text)
  /\ filter.hasCategory => doc.category = filter.category
  /\ filter.hasType => doc.type = filter.type
  /\ filter.hasFeatured => doc.featured = filter.featured

RECURSIVE SortByCreatedAtDesc(_)
SortByCreatedAtDesc(docs) ==
  IF docs = {} THEN <<>>
  ELSE LET d == CHOOSE x \in docs : \A y \in docs : y.createdAt <= x.createdAt
       IN <<d>> \o SortByCreatedAtDesc(docs \ {d})

\* Movie.find(filter).sort({ createdAt: -1 }).limit(n)
MovieFind(filter, n) ==
  Slice(SortByCreatedAtDesc({d \in collection : FilterMatches(d, filter)}), n)

\* Mutant: the search compares the title as it is written.
FilterSeed_caseSensitiveSearch(query, n) ==
  LET byType == SelectSeq(seedMovies, LAMBDA m : query.type = "" \/ m.type = query.type)
      byCategory == SelectSeq(byType, LAMBDA m : query.category = "" \/ m.category = query.category)
      bySearch == SelectSeq(byCategory, LAMBDA m :
                     query.search = "" \/ Includes(m.title, query.search))
      byFeatured == SelectSeq(bySearch, LAMBDA m : IF query.featured = "true" THEN m.featured ELSE TRUE)
  IN Slice(byFeatured, n)

\* seedMovies.filter(...).filter(...).filter(...).filter(...).slice(0, n)
FilterSeed(query, n) ==
  LET byType == SelectSeq(seedMovies, LAMBDA m : query.type = "" \/ m.type = query.type)
      byCategory == SelectSeq(byType, LAMBDA m : query.category = "" \/ m.category = query.category)
      bySearch == SelectSeq(byCategory, LAMBDA m :
                     query.search = "" \/ Includes(LowerCase(m.title), LowerCase(query.search)))
      byFeatured == SelectSeq(bySearch, LAMBDA m : IF query.featured = "true" THEN m.featured ELSE TRUE)
  IN Slice(byFeatured, n)

----------------------------------------------------------------------------
(* Upstream provider: what it serves, and the category list *)

Long == <<1, 2, 3, 4, 5, 6, 7>>

\* What the upstream serves: the results of the first two listings, of every
\* other fixed listing and of the discover listings, and the two genre lists.
BusyWorld ==
  [first |-> <<1, 2>>, second |-> <<1>>, rest |-> <<2>>, discover |-> <<3>>,
   movieGenres |-> << [name |-> "Action", id |-> 28] >>, tvGenres |-> <<>>]

QuietWorld ==
  [first |-> <<>>, second |-> <<1>>, rest |-> <<>>, discover |-> <<>>,
   movieGenres |-> <<>>, tvGenres |-> <<>>]

\* Both of the first two listings have more than three items.
FullWorld ==
  [first |-> Long, second |-> <<1, 2, 3, 4>>, rest |-> <<2>>, discover |-> <<>>,
   movieGenres |-> <<>>, tvGenres |-> <<>>]

TmdbWorlds ==
  { BusyWorld,
    QuietWorld,
    [first |-> Long, second |-> <<>>, rest |-> <<>>, discover |-> <<>>,
     movieGenres |-> << [name |-> "Action", id |-> 0] >>, tvGenres |-> <<>>] }

\* The fixed editorial categories, in the order of the source.
AllCategories ==
  << [title |-> "Trending Movies", path |-> "/trending/movie/week", type |-> "movie", genre |-> 0],
     [title |-> "Trending TV", path |-> "/trending/tv/week", type |-> "series", genre |-> 0],
     [title |-> "Now Playing", path |-> "/movie/now_playing", type |-> "movie", genre |-> 0],
     [title |-> "Popular Movies", path |-> "/movie/popular", type |-> "movie", genre |-> 0],
     [title |-> "Top Rated Movies", path |-> "/movie/top_rated", type |-> "movie", genre |-> 0],
     [title |-> "Upcoming Movies", path |-> "/movie/upcoming", type |-> "movie", genre |-> 0],
     [title |-> "Popular TV", path |-> "/tv/popular", type |-> "series", genre |-> 0],
     [title |-> "Top Rated TV", path |-> "/tv/top_rated", type |-> "series", genre |-> 0],
     [title |-> "On The Air", path |-> "/tv/on_the_air", type |-> "series", genre |-> 0] >>

\* The first NumFixedCategories of them are modelled.
categories == SubSeq(AllCategories, 1, Min(NumFixedCategories, Len(AllCategories)))

\* The genre names looked up in the genre maps (the first of each list).
movieGenres == <<"Action">>
tvGenres == <<"Animation">>

\* fetchGenreMap: lower-cased name -> id, for the genres with a name and an id.
GenreMap(genres) ==
  LET ok == {i \in 1..Len(genres) : genres[i].name # "" /\ genres[i].id # 0}
  IN [n \in {LowerCase(genres[i].name) : i \in ok} |->
        genres[CHOOSE i \in ok : LowerCase(genres[i].name) = n].id]

\* map.get(name): undefined (0) when the name is not a key.
GenreId(map, name) == IF name \in DOMAIN map THEN map[name] ELSE 0

GenreTitle(name, suffix) ==
  CASE name = "Action" /\ suffix = "Movies" -> "Action Movies"
    [] name = "Animation" /\ suffix = "TV" -> "Animation TV"
    [] OTHER -> name

\* One discover category per listed genre name found in the map.
GenreCategoriesOf(names, map, suffix, path, type) ==
  LET all == [i \in 1..Len(names) |->
                [title |-> GenreTitle(names[i], suffix), path |-> path, type |-> type,
                 genre |-> GenreId(map, LowerCase(names[i]))]]
  IN SelectSeq(all, LAMBDA c : c.genre # 0)

genreCategories(world) ==
  GenreCategoriesOf(movieGenres, GenreMap(world.movieGenres), "Movies", "/discover/movie", "movie")
    \o GenreCategoriesOf(tvGenres, GenreMap(world.tvGenres), "TV", "/discover/tv", "series")

\* [...categories, ...genreCategories]
CategoryList(world) == categories \o genreCategories(world)

\* payload.results of one category listing
ResultsOf(world, category) ==
  CASE category.path = "/trending/movie/week" -> world.first
    [] category.path = "/trending/tv/week" -> world.second
    [] category.path \in {"/discover/movie", "/discover/tv"} -> world.discover
    [] OTHER -> world.rest

\* categoryResults: each category with results.slice(0, perCategory)
categoryResults(world, perCat) ==
  LET cats == CategoryList(world)
  IN [i \in 1..Len(cats) |->
        [title |-> cats[i].title, type |-> cats[i].type,
         results |-> Slice(ResultsOf(world, cats[i]), perCat)]]

\* The keys type:id of the first 3 items of the first 2 categories.
trailerTargets(catResults) ==
  UNION { { <<catResults[c].type, catResults[c].results[i]>> :
              i \in 1..Min(3, Len(catResults[c].results)) } :
          c \in 1..Min(2, Len(catResults)) }

\* Mutant: the first item of every category is featured.
isFeatured_firstOfEach(categoryIndex, index) == index = 0

\* categoryIndex === 0 && index === 0
isFeatured(categoryIndex, index) == categoryIndex = 0 /\ index = 0

\* The items of categories c.. of catResults, mapped in order.
RECURSIVE TmdbData(_, _, _)
TmdbData(catResults, c, trailerMap) ==
  IF c > Len(catResults) THEN <<>>
  ELSE [i \in 1..Len(catResults[c].results) |->
          mapTmdbItem(catResults[c].results[i], catResults[c].title, catResults[c].type,
                      trailerMap, isFeatured(c - 1, i - 1))]
       \o TmdbData(catResults, c + 1, trailerMap)

----------------------------------------------------------------------------
(* The listing handler getMovies, one action per run between two awaits *)

NoResponse == [status |-> 0, count |-> 0, data |-> <<>>, via |-> "none"]

\* res.status(status).json({ count, data })
Json(status, count, data, via) == [status |-> status, count |-> count, data |-> data, via |-> via]

\* A request slot: the handler's position and locals, what it has done so
\* far (calls issued to the upstream, payloads received from it), its response,
\* and every outcome it has produced: "json" for a res.json call, "next" for a
\* next(error) call.
IdleRequest ==
  [pc |-> "idle", query |-> Query("", Undefined, Undefined, ""), now |-> 0,
   tmdbDisabled |-> FALSE, perCategory |-> 0, cappedLimit |-> 0, pending |-> {},
   calls |-> 0, fetched |-> 0, upstreamFailed |-> FALSE, storeFailed |-> FALSE,
   inCooldown |-> FALSE, trailerMap |-> {}, res |-> NoResponse, outcomes |-> <<>>]

\* Mutant: the API key is not looked at.
UpstreamEligible_ignoresKey(key, query, tmdbDisabled) ==
  query.source # "db" /\ ~tmdbDisabled

\* Mutant: the source override is not looked at.
UpstreamEligible_ignoresSource(key, query, tmdbDisabled) ==
  key /\ ~tmdbDisabled

\* process.env.TMDB_API_KEY && req.query.source !== 'db' && !tmdbDisabled
UpstreamEligible(key, query, tmdbDisabled) ==
  key /\ query.source # "db" /\ ~tmdbDisabled

\* return res.status(200).json({ count: filteredSeed.length, data: filteredSeed.map(normalizeSeedMovie) })
SeedResponse(filteredSeed) ==
  Json(200, Len(filteredSeed), MapSeq(normalizeSeedMovie, filteredSeed), "seed")

\* Mutant: count is the size of the collection, not of the returned list.
StoreResponse_countsCollection(movies) ==
  Json(200, Cardinality(collection), MapSeq(normalizeMovie, movies), "store")

\* return res.status(200).json({ count: movies.length, data: movies.map(normalizeMovie) })
StoreResponse(movies) ==
  Json(200, Len(movies), MapSeq(normalizeMovie, movies), "store")

\* return res.status(200).json({ count: data.length, data })
TmdbResponse(catResults, trailerMap) ==
  LET data == TmdbData(catResults, 1, trailerMap)
  IN Json(200, Len(data), data, "tmdb")

\* next(error) -> errorHandler: status = err.status || (Validation/Cast ? 400 : 500)
ErrorResponse == Json(500, 0, <<>>, "error")

\* Lines 303-345 up to the first await: the filter, the limit, then either the
\* store query is started or the seed catalog answers at once.
StorePath(rq, ready) ==
  LET n == cappedLimit(rq.query)
      rq1 == [rq EXCEPT !.cappedLimit = n]
  IN IF ready = 1
     THEN [rq1 EXCEPT !.pc = "find"]
     ELSE [rq1 EXCEPT !.pc = "done", !.res = SeedResponse(FilterSeed(rq.query, n)),
                      !.outcomes = Append(@, "json")]

\* tmdbFailureStreak += 1
StreakAfterFailure(streak) == streak + 1

\* Mutant: the upstream is disabled from the third failure in a row.
DisabledUntilAfterFailure_fromThird(streak, disabledUntil, start) ==
  IF streak >= 3 THEN start + TMDB_COOLDOWN_MS ELSE disabledUntil

\* if (tmdbFailureStreak >= 1) tmdbDisabledUntil = now + TMDB_COOLDOWN_MS
DisabledUntilAfterFailure(streak, disabledUntil, start) ==
  IF streak >= 1 THEN start + TMDB_COOLDOWN_MS ELSE disabledUntil

\* tmdbFailureStreak = 0; tmdbDisabledUntil = 0 (lines 232-233)
HealthAfterTmdbSuccess(streak, disabledUntil) == <<0, 0>>

\* Mutant: the store path leaves the health state alone.
HealthAfterStoreSuccess_keeps(streak, disabledUntil) == <<streak, disabledUntil>>

\* tmdbFailureStreak = 0; tmdbDisabledUntil = 0 (lines 327-328)
HealthAfterStoreSuccess(streak, disabledUntil) == <<0, 0>>

\* Mutant: the catch block hands the error on instead of falling back.
CatchUpstreamError_rethrows(rq, ready) ==
  [rq EXCEPT !.upstreamFailed = TRUE, !.pending = {}, !.pc = "done", !.res = ErrorResponse,
             !.outcomes = Append(@, "next")]

\* Mutant: what the failed attempt had fetched is put in front of the fallback's
\* own records when the seed catalog answers.
CatchUpstreamError_keepsPartial(rq, ready) ==
  LET fb == StorePath([rq EXCEPT !.upstreamFailed = TRUE, !.pending = {}], ready)
      got == TmdbData(Slice(categoryResults(tmdb, rq.perCategory), rq.fetched - 2), 1, {})
  IN IF fb.pc = "done"
     THEN [fb EXCEPT !.res = Json(200, Len(got) + fb.res.count, got \o fb.res.data, "seed")]
     ELSE fb

\* The catch block of getMovies, then the store/seed path.
CatchUpstreamError(rq, ready) ==
  StorePath([rq EXCEPT !.upstreamFailed = TRUE, !.pending = {}], ready)

Fixed == UNCHANGED <<now, apiKey, readyState, tmdb, trailer, norm, fetch, collection, crud>>

\* Mutant: the upstream is still disabled at the very end of the cooldown.
TmdbDisabled_inclusive(disabledUntil, t) == disabledUntil >= t

\* const tmdbDisabled = tmdbDisabledUntil > now
TmdbDisabled(disabledUntil, t) == disabledUntil > t

StartRequest(r, q) ==
  /\ req[r].pc \in {"idle", "done"}
  /\ LET tmdbDisabled == TmdbDisabled(tmdbDisabledUntil, now)
         rq == [IdleRequest EXCEPT !.query = q, !.now = now, !.tmdbDisabled = tmdbDisabled,
                                   !.inCooldown = now < cooldownUntil]
     IN req' = [req EXCEPT ![r] =
                  IF UpstreamEligible(apiKey, q, tmdbDisabled)
                  THEN [rq EXCEPT !.pc = "genreMovie", !.perCategory = perCategory(q),
                                  !.calls = 1]
                  ELSE StorePath(rq, readyState)]
  /\ UNCHANGED <<tmdbDisabledUntil, tmdbFailureStreak, cooldownUntil>>
  /\ Fixed

\* fetchGenreMap('movie') resolves; fetchGenreMap('series') is called.
GenreMovieFetched(r) ==
  /\ req[r].pc = "genreMovie"
  /\ req' = [req EXCEPT ![r].pc = "genreTv", ![r].calls = @ + 1, ![r].fetched = @ + 1]
  /\ UNCHANGED <<tmdbDisabledUntil, tmdbFailureStreak, cooldownUntil>>
  /\ Fixed

\* fetchGenreMap('series') resolves; every category listing is requested.
GenreTvFetched(r) ==
  /\ req[r].pc = "genreTv"
  /\ LET n == Len(CategoryList(tmdb))
     IN req' = [req EXCEPT ![r].pc = "categories", ![r].pending = 1..n,
                           ![r].calls = @ + n, ![r].fetched = @ + 1]
  /\ UNCHANGED <<tmdbDisabledUntil, tmdbFailureStreak, cooldownUntil>>
  /\ Fixed

\* Mutant: after the upstream path has answered, the handler goes on to the
\* store/seed path.
AfterTmdbResponse_fallsThrough(rq, ready) == StorePath(rq, ready)

\* return await getMoviesFromTmdb(req, res, next): the handler ends here.
AfterTmdbResponse(rq, ready) == rq

\* Lines 223-234: data is built, the health state reset, the response sent.
TmdbSuccess(r, trailerMap) ==
  /\ req' = [req EXCEPT ![r] =
       AfterTmdbResponse(
         [req[r] EXCEPT !.pc = "done", !.pending = {}, !.fetched = @ + 1,
                   !.trailerMap = trailerMap,
                   !.res = TmdbResponse(categoryResults(tmdb, req[r].perCategory),
                                        trailerMap),
                   !.outcomes = Append(@, "json")],
         readyState)]
  /\ tmdbFailureStreak' = HealthAfterTmdbSuccess(tmdbFailureStreak, tmdbDisabledUntil)[1]
  /\ tmdbDisabledUntil' = HealthAfterTmdbSuccess(tmdbFailureStreak, tmdbDisabledUntil)[2]
  /\ UNCHANGED cooldownUntil

\* Mutant: Promise.all resolves with the first listing that does.
AllSettled_first(pending, c) == TRUE

\* Promise.all resolves when the last pending listing c has resolved.
AllSettled(pending, c) == pending = {c}

\* One category listing resolves; with the last one Promise.all resolves and
\* the trailer lookups are started (with no target, allSettled resolves at once).
CategoryFetched(r, c) ==
  /\ req[r].pc = "categories"
  /\ c \in req[r].pending
  /\ LET targets == trailerTargets(categoryResults(tmdb, req[r].perCategory))
     IN IF ~AllSettled(req[r].pending, c)
        THEN /\ req' = [req EXCEPT ![r].pending = @ \ {c}, ![r].fetched = @ + 1]
             /\ UNCHANGED <<tmdbDisabledUntil, tmdbFailureStreak, cooldownUntil>>
        ELSE IF targets # {}
        THEN /\ req' = [req EXCEPT ![r].pc = "trailers", ![r].pending = {},
                                   ![r].fetched = @ + 1,
                                   ![r].calls = @ + Cardinality(targets)]
             /\ UNCHANGED <<tmdbDisabledUntil, tmdbFailureStreak, cooldownUntil>>
        ELSE TmdbSuccess(r, {})
  /\ Fixed

\* Promise.allSettled resolves: resolved is the set of targets whose lookup
\* was fulfilled with a non-empty URL.
TrailersSettled(r, resolved) ==
  /\ req[r].pc = "trailers"
  /\ resolved \subseteq trailerTargets(categoryResults(tmdb, req[r].perCategory))
  /\ TmdbSuccess(r, resolved)
  /\ Fixed

\* A genre-map or category fetch rejects (retries exhausted): the catch block
\* of getMovies records the failure and the store/seed path runs.
UpstreamFetchFails(r) ==
  /\ req[r].pc \in {"genreMovie", "genreTv", "categories"}
  /\ tmdbFailureStreak' = StreakAfterFailure(tmdbFailureStreak)
  /\ tmdbDisabledUntil' =
       DisabledUntilAfterFailure(tmdbFailureStreak', tmdbDisabledUntil, req[r].now)
  /\ cooldownUntil' = Max(cooldownUntil, tmdbDisabledUntil')
  /\ req' = [req EXCEPT ![r] = CatchUpstreamError(req[r], readyState)]
  /\ Fixed

\* await Movie.find(...) resolves.
FindResolves(r) ==
  /\ req[r].pc = "find"
  /\ LET movies == MovieFind(BuildFilter(req[r].query), req[r].cappedLimit)
     IN req' = [req EXCEPT ![r].pc = "done", ![r].res = StoreResponse(movies),
                           ![r].outcomes = Append(@, "json")]
  /\ tmdbFailureStreak' = HealthAfterStoreSuccess(tmdbFailureStreak, tmdbDisabledUntil)[1]
  /\ tmdbDisabledUntil' = HealthAfterStoreSuccess(tmdbFailureStreak, tmdbDisabledUntil)[2]
  /\ UNCHANGED cooldownUntil
  /\ Fixed

\* await Movie.find(...) rejects: the outer catch hands the error to next().
FindRejects(r) ==
  /\ req[r].pc = "find"
  /\ req' = [req EXCEPT ![r].pc = "done", ![r].storeFailed = TRUE, ![r].res = ErrorResponse,
                        ![r].outcomes = Append(@, "next")]
  /\ UNCHANGED <<tmdbDisabledUntil, tmdbFailureStreak, cooldownUntil>>
  /\ Fixed

\* Time passes.
Tick ==
  /\ now < MaxTicks * ClockStep
  /\ now' = now + ClockStep
  /\ UNCHANGED <<tmdbDisabledUntil, tmdbFailureStreak, apiKey, readyState, tmdb, req,
                 cooldownUntil, trailer, norm, fetch, collection, crud>>

\* The connection to the store is lost or established.
ConnectionChange ==
  /\ readyState' = 1 - readyState
  /\ UNCHANGED <<now, tmdbDisabledUntil, tmdbFailureStreak, apiKey, tmdb, req, cooldownUntil,
                 trailer, norm, fetch, collection, crud>>

\* No trailer lookup has been made.
NoTrailer ==
  [pc |-> "idle", type |-> "", id |-> "", path |-> "", attempt |-> 0, calls |-> 0,
   answered |-> FALSE, results |-> <<>>, status |-> 0, trailerUrl |-> <<>>]

\* No single-item or CRUD request has been made.
NoCrud == [handler |-> "none", id |-> "", status |-> 0, created |-> 0]

\* tmdbFetch has not been called.
NoFetch ==
  [pc |-> "idle", attempts |-> 0, attempt |-> 0, requests |-> 0, waits |-> <<>>,
   failures |-> <<>>, response |-> <<>>, payload |-> "", thrown |-> ""]

\* No normalization function has been applied.
NoNorm == [fn |-> "none", input |-> <<>>, output |-> <<>>]

\* The process after start-up, before any request.
InitProcess ==
  /\ now = ClockStep
  /\ tmdbDisabledUntil = 0
  /\ tmdbFailureStreak = 0
  /\ apiKey \in BOOLEAN
  /\ readyState \in {0, 1}
  /\ req = [r \in Requests |-> IdleRequest]
  /\ cooldownUntil = 0
  /\ trailer = NoTrailer
  /\ fetch = NoFetch
  /\ collection = movieCollection
  /\ crud = NoCrud

Init ==
  /\ InitProcess
  /\ tmdb \in TmdbWorlds
  /\ norm = NoNorm

\* The steps of a request that has been started.
Continue(r) ==
  \/ GenreMovieFetched(r)
  \/ GenreTvFetched(r)
  \/ \E c \in req[r].pending : CategoryFetched(r, c)
  \/ \E resolved \in SUBSET trailerTargets(categoryResults(tmdb, req[r].perCategory)) :
       TrailersSettled(r, resolved)
  \/ FindRejects(r)
  \/ FindResolves(r)
  \/ UpstreamFetchFails(r)

Handler(r) ==
  \/ \E q \in Queries : StartRequest(r, q)
  \/ Continue(r)

Next ==
  \/ \E r \in SeqRequests : Handler(r)
  \/ Tick
  \/ ConnectionChange

Spec == Init /\ [][Next]_vars

\* The listing handler under filtering queries, against one upstream.
InitSeed ==
  /\ InitProcess
  /\ tmdb = QuietWorld
  /\ norm = NoNorm

NextSeed ==
  \/ \E q \in FilterQueries : StartRequest(1, q)
  \/ Continue(1)
  \/ ConnectionChange

SpecSeed == InitSeed /\ [][NextSeed]_vars

\* Two calls in a row by one caller. Slot 1 runs the calls; slot 2 is the
\* answered call the caller keeps to compare the next one with.
TwiceQueries ==
  { Query("", Undefined, Undefined, ""), Query("", Num(1), Num(2), "movie") }

\* The caller keeps the call that has just been answered.
Remember ==
  /\ req[1].pc = "done"
  /\ req[2] # req[1]
  /\ req' = [req EXCEPT ![2] = req[1]]
  /\ UNCHANGED <<tmdbDisabledUntil, tmdbFailureStreak, cooldownUntil>>
  /\ Fixed

\* The connection to the store is lost or established while no call is being
\* served; the caller starts over, keeping no answer from before the change.
ConnectionChangeForgets ==
  /\ req[1].pc \in {"idle", "done"}
  /\ readyState' = 1 - readyState
  /\ req' = [r \in Requests |-> IdleRequest]
  /\ UNCHANGED <<now, tmdbDisabledUntil, tmdbFailureStreak, apiKey, tmdb, cooldownUntil,
                 trailer, norm, fetch, collection, crud>>

InitTwice ==
  /\ InitProcess
  /\ tmdb = BusyWorld
  /\ norm = NoNorm

NextTwice ==
  \/ /\ req[2] = IdleRequest \/ req[2] = req[1]
     /\ \E q \in TwiceQueries : StartRequest(1, q)
  \/ Continue(1)
  \/ Remember
  \/ ConnectionChangeForgets
  \/ Tick

SpecTwice == InitTwice /\ [][NextTwice]_vars

-----------------------------------------------------------------------------
(* The three normalization functions, applied to one source record.          *)

\* The type field is absent from the source record.
NoType == "undefined"

RawTypes == {"movie", "series", "documentary", NoType}

\* A source record: a stored document, a seed entry or an upstream item
\* (whose media_type plays the part of type).
SourceRecords ==
  { [_id |-> "65a1", id |-> 1, title |-> t, category |-> c, type |-> ty,
     trailerUrl |-> "t1", featured |-> f] :
      t \in {"Red Dawn", "Heat", "Up"}, c \in {"Action", "Drama"},
      ty \in RawTypes, f \in BOOLEAN }

\* A document loaded by the Movie model: the schema default fills a missing
\* type; an out-of-enum value is not validated on load.
Hydrate(doc) ==
  IF doc.type = NoType THEN [doc EXCEPT !.type = "movie"] ELSE doc

ApplyNormalize(fn, output) ==
  /\ norm.fn = "none"
  /\ norm' = [norm EXCEPT !.fn = fn, !.output = output]
  /\ UNCHANGED <<now, tmdbDisabledUntil, tmdbFailureStreak, apiKey, readyState, tmdb, req,
                 cooldownUntil, trailer, fetch,
                 collection, crud>>

\* mapTmdbItem(item, category.title, category.type, trailerMap, isFeatured)
ApplyMapTmdbItem(c, first) ==
  ApplyNormalize("mapTmdbItem",
                 mapTmdbItem(norm.input.id, AllCategories[c].title, AllCategories[c].type,
                             {}, first))

\* movies.map(normalizeMovie) on a document Movie.find returned
ApplyNormalizeMovie ==
  ApplyNormalize("normalizeMovie", normalizeMovie(Hydrate(norm.input)))

\* filteredSeed.map(normalizeSeedMovie)
ApplyNormalizeSeedMovie ==
  ApplyNormalize("normalizeSeedMovie", normalizeSeedMovie(norm.input))

InitNormalize ==
  /\ InitProcess
  /\ tmdb = QuietWorld
  /\ \E rec \in SourceRecords : norm = [NoNorm EXCEPT !.input = rec]

NextNormalize ==
  \/ \E c \in 1..Len(AllCategories), first \in BOOLEAN : ApplyMapTmdbItem(c, first)
  \/ ApplyNormalizeMovie
  \/ ApplyNormalizeSeedMovie

SpecNormalize == InitNormalize /\ [][NextNormalize]_vars

-----------------------------------------------------------------------------
(* The trailer lookup endpoint: getTmdbTrailer, fetchTrailerUrl, tmdbFetch.  *)
(* It reads the API key and nothing else of the module state.                *)

\* tmdbFetch(path, params, attempts = 2)
TMDB_ATTEMPTS == 2

Video(site, type, key) == [site |-> site, type |-> type, key |-> key]

\* payload.results of /movie/{id}/videos and /tv/{id}/videos
VideoPayloads ==
  { <<>>,
    << Video("YouTube", "Trailer", "a") >>,
    << Video("Vimeo", "Trailer", "v") >>,
    << Video("YouTube", "Featurette", "f") >>,
    << Video("YouTube", "Clip", "c"), Video("YouTube", "Teaser", "t") >>,
    << Video("Vimeo", "Trailer", "v"), Video("YouTube", "Trailer", "a"),
       Video("YouTube", "Trailer", "b") >>,
    << Video("YouTube", "Clip", "c") >>,
    << Video("YouTube", "Trailer", "") >> }

\* What a failed attempt throws: line 54's Error, fetch's TypeError, the abort.
UpstreamErrors ==
  { [name |-> "Error", status |-> 0],
    [name |-> "TypeError", status |-> 0],
    [name |-> "AbortError", status |-> 0] }

\* const preferred = ['Trailer', 'Teaser', 'Clip']
preferred == <<"Trailer", "Teaser", "Clip">>

\* results.find((item) => item.site === 'YouTube' && item.type === kind): its
\* index, 0 when there is none.
FindVideo(results, kind) ==
  LET hits == {i \in 1..Len(results) : results[i].site = "YouTube" /\ results[i].type = kind}
  IN IF hits = {} THEN 0 ELSE CHOOSE i \in hits : \A j \in hits : i <= j

\* `https://www.youtube.com/embed/${video.key}`; <<>> is the empty string.
EmbedUrl(key) == <<"https://www.youtube.com/embed/", key>>

\* Mutant: the first YouTube trailer, teaser or clip in result order, whatever
\* its kind.
fetchTrailerUrl_firstInResultOrder(results) ==
  LET hits == {i \in 1..Len(results) :
                 results[i].site = "YouTube" /\ results[i].type \in {"Trailer", "Teaser", "Clip"}}
  IN IF hits = {} THEN <<>>
     ELSE EmbedUrl(results[CHOOSE i \in hits : \A j \in hits : i <= j].key)

\* preferred.map(find).find(Boolean), then the URL or ''
fetchTrailerUrl(results) ==
  LET kinds == {k \in 1..Len(preferred) : FindVideo(results, preferred[k]) # 0}
  IN IF kinds = {} THEN <<>>
     ELSE LET k == CHOOSE k \in kinds : \A j \in kinds : k <= j
          IN EmbedUrl(results[FindVideo(results, preferred[k])].key)

\* type === 'series' ? 'series' : type === 'movie' ? 'movie' : ''
normalizedType(type) ==
  IF type = "series" THEN "series" ELSE IF type = "movie" THEN "movie" ELSE ""

\* Mutant: the configuration is looked at before the parameters.
TrailerEntryStatus_keyFirst(type, id, key) ==
  IF ~key THEN 503
  ELSE IF normalizedType(type) = "" \/ id = "" THEN 400
  ELSE 0

\* The status getTmdbTrailer returns before any upstream call; 0 when it goes on.
TrailerEntryStatus(type, id, key) ==
  IF normalizedType(type) = "" \/ id = "" THEN 400
  ELSE IF ~key THEN 503
  ELSE 0

\* errorHandler: err.status || (ValidationError or CastError ? 400 : 500)
errorHandler(err) ==
  IF err.status # 0 THEN err.status
  ELSE IF err.name \in {"ValidationError", "CastError"} THEN 400 ELSE 500

TrailerTypes == {"movie", "series", "music", "Movie", ""}
TrailerIds == {"", "603", "1399"}

OnlyTrailer ==
  UNCHANGED <<now, tmdbDisabledUntil, tmdbFailureStreak, apiKey, readyState, tmdb, req,
              cooldownUntil, norm, fetch, collection, crud>>

\* Mutant: the trailer endpoint is closed during the cooldown as well.
TrailerConfigured_gated(key, disabledUntil, t) == key /\ ~TmdbDisabled(disabledUntil, t)

\* process.env.TMDB_API_KEY: the health state is not read.
TrailerConfigured(key, disabledUntil, t) == key

\* getTmdbTrailer up to its first await.
GetTmdbTrailer(type, id) ==
  /\ trailer.pc \in {"idle", "done"}
  /\ LET status == TrailerEntryStatus(type, id,
                                      TrailerConfigured(apiKey, tmdbDisabledUntil, now))
         started == [NoTrailer EXCEPT !.type = type, !.id = id]
     IN trailer' =
          IF status # 0
          THEN [started EXCEPT !.pc = "done", !.status = status]
          ELSE [started EXCEPT !.pc = "fetching",
                               !.path = IF normalizedType(type) = "series" THEN "tv" ELSE "movie",
                               !.calls = 1]
  /\ OnlyTrailer

\* The upstream answers 2xx with a payload: fetchTrailerUrl returns, 404 or 200.
TrailerPayload(results) ==
  /\ trailer.pc = "fetching"
  /\ LET trailerUrl == fetchTrailerUrl(results)
     IN trailer' = [trailer EXCEPT !.pc = "done", !.answered = TRUE, !.results = results,
                                   !.trailerUrl = trailerUrl,
                                   !.status = IF trailerUrl = <<>> THEN 404 ELSE 200]
  /\ OnlyTrailer

\* An attempt fails (timeout, non-2xx, network error): retried after the
\* backoff, or, after the last attempt, thrown to next(error).
TrailerAttemptFails(err) ==
  /\ trailer.pc = "fetching"
  /\ trailer' =
       IF trailer.attempt < TMDB_ATTEMPTS - 1
       THEN [trailer EXCEPT !.attempt = @ + 1, !.calls = @ + 1]
       ELSE [trailer EXCEPT !.pc = "done", !.status = errorHandler(err)]
  /\ OnlyTrailer

InitTrailer ==
  /\ InitProcess
  /\ tmdb = QuietWorld
  /\ norm = NoNorm

NextTrailer ==
  \/ \E type \in TrailerTypes, id \in TrailerIds : GetTmdbTrailer(type, id)
  \/ \E results \in VideoPayloads : TrailerPayload(results)
  \/ \E err \in UpstreamErrors : TrailerAttemptFails(err)

SpecTrailer == InitTrailer /\ [][NextTrailer]_vars

-----------------------------------------------------------------------------
(* One call of tmdbFetch(path, params, attempts = 2), attempt by attempt.    *)

\* What an attempt's `await fetch(url)` resolves with: the status is 2xx or
\* not, the body is JSON or not.
Responses ==
  { [ok |-> TRUE, json |-> TRUE, body |-> "results"],
    [ok |-> TRUE, json |-> FALSE, body |-> "<html>"],
    [ok |-> FALSE, json |-> TRUE, body |-> "status_message"],
    [ok |-> FALSE, json |-> FALSE, body |-> "<html>"] }

\* What `await fetch(url)` rejects with: a network error, the timeout's abort.
Rejections == {"FetchError", "AbortError"}

\* The attempts argument of a call; every caller in the module leaves the default.
AttemptsValues == {1, TMDB_ATTEMPTS, TMDB_ATTEMPTS + 1}

\* await response.json().catch(() => ({}))
ParseBody(response) == IF response.json THEN response.body ELSE "{}"

\* payload?.status_message || payload?.message || 'TMDB request failed'
ErrorMessage(payload) ==
  IF payload = "status_message" THEN "Invalid API key" ELSE "TMDB request failed"

\* Mutant: the last attempt is retried as well.
ShouldRetry_always(attempt, attempts) == attempt < attempts

\* if (attempt < attempts - 1)
ShouldRetry(attempt, attempts) == attempt < attempts - 1

\* 400 * (attempt + 1)
BackoffMs(attempt) == 400 * (attempt + 1)

OnlyFetch ==
  UNCHANGED <<now, tmdbDisabledUntil, tmdbFailureStreak, apiKey, readyState, tmdb, req,
              cooldownUntil, trailer, norm, collection, crud>>

\* The catch block of an attempt: lastError = error, then the backoff or, the
\* loop being over, throw lastError.
AttemptFailed(f, error) ==
  LET f1 == [f EXCEPT !.failures = Append(@, error)]
  IN IF ShouldRetry(f.attempt, f.attempts)
     THEN [f1 EXCEPT !.pc = "backoff", !.waits = Append(@, BackoffMs(f.attempt))]
     ELSE [f1 EXCEPT !.pc = "thrown", !.thrown = error]

\* tmdbFetch is called: buildTmdbUrl throws without a key, else the first
\* attempt's request is issued.
TmdbFetchCalled(attempts) ==
  /\ fetch.pc \in {"idle", "returned", "thrown"}
  /\ fetch' = IF ~apiKey
              THEN [NoFetch EXCEPT !.pc = "thrown", !.attempts = attempts,
                                   !.thrown = "TMDB_API_KEY is missing in server/.env"]
              ELSE [NoFetch EXCEPT !.pc = "request", !.attempts = attempts, !.requests = 1]
  /\ OnlyFetch

\* The attempt's request is answered: the body is parsed, a non-2xx status
\* throws into the catch block, otherwise the payload is returned.
AttemptAnswered(response) ==
  /\ fetch.pc = "request"
  /\ LET payload == ParseBody(response)
     IN fetch' = IF ~response.ok
                 THEN AttemptFailed(fetch, ErrorMessage(payload))
                 ELSE [fetch EXCEPT !.pc = "returned", !.response = response,
                                    !.payload = payload]
  /\ OnlyFetch

\* The attempt's request rejects (network error, timeout).
AttemptRejected(error) ==
  /\ fetch.pc = "request"
  /\ fetch' = AttemptFailed(fetch, error)
  /\ OnlyFetch

\* The backoff is over: the next attempt's request is issued.
BackoffElapsed ==
  /\ fetch.pc = "backoff"
  /\ fetch' = [fetch EXCEPT !.pc = "request", !.attempt = @ + 1, !.requests = @ + 1]
  /\ OnlyFetch

InitFetch ==
  /\ InitProcess
  /\ tmdb = QuietWorld
  /\ norm = NoNorm

NextFetch ==
  \/ \E attempts \in AttemptsValues : TmdbFetchCalled(attempts)
  \/ \E response \in Responses : AttemptAnswered(response)
  \/ \E error \in Rejections : AttemptRejected(error)
  \/ BackoffElapsed

SpecFetch == InitFetch /\ [][NextFetch]_vars

\* The listing handler against an upstream whose first two listings are long:
\* six trailer lookups per upstream attempt.
EnrichQueries ==
  { Query("", Undefined, Undefined, ""), Query("", Num(40), Num(2), "movie"),
    Query("db", Undefined, Undefined, "") }

InitEnrich ==
  /\ InitProcess
  /\ tmdb = FullWorld
  /\ norm = NoNorm

NextEnrich ==
  \/ \E q \in EnrichQueries : StartRequest(1, q)
  \/ Continue(1)
  \/ ConnectionChange
  \/ Tick

SpecEnrich == InitEnrich /\ [][NextEnrich]_vars

-----------------------------------------------------------------------------
(* The single-item and CRUD handlers: getMovieById, createMovie,             *)
(* updateMovie, deleteMovie.  Each awaits one store operation and answers.   *)

\* The documents createMovie may add.
MaxCreated == 1

\* req.params.id: a stored document, a well-formed id of no document, a
\* string that is no ObjectId.
MovieIds == {"65a2", "65a9", "abc"}

\* The id casts to an ObjectId (else the store operation rejects with a CastError).
IsObjectId(id) == id # "abc"

\* req.body of createMovie: title, type (the other required fields are there).
CreateBodies ==
  { [title |-> "Heat", type |-> "movie"], [title |-> "Heat", type |-> NoType],
    [title |-> "Heat", type |-> "documentary"], [title |-> "", type |-> "series"] }

\* req.body of updateMovie.
UpdateBodies ==
  { [type |-> "series", featured |-> TRUE], [type |-> "documentary", featured |-> TRUE] }

\* The schema's validators on a new document: title required, type in the
\* enum (a missing type takes the default).
ValidatesCreate(body) == body.title # "" /\ body.type \in {"movie", "series", NoType}

\* runValidators: true on the fields an update sets.
ValidatesUpdate(body) == body.type \in {"movie", "series"}

\* The ObjectId the store gives the k-th created document.
NewId(k) ==
  CASE k = 1 -> "65b1"
    [] k = 2 -> "65b2"
    [] OTHER -> "65b3"

CastError == [name |-> "CastError", status |-> 0]
ValidationError == [name |-> "ValidationError", status |-> 0]

OnlyCrud ==
  UNCHANGED <<now, tmdbDisabledUntil, tmdbFailureStreak, apiKey, readyState, tmdb, req,
              cooldownUntil, trailer, norm, fetch>>

Answered(handler, id, status) ==
  crud' = [crud EXCEPT !.handler = handler, !.id = id, !.status = status]

GetMovieById(id) ==
  /\ Answered("getMovieById", id,
              IF ~IsObjectId(id) THEN errorHandler(CastError)
              ELSE IF \E d \in collection : d._id = id THEN 200 ELSE 404)
  /\ UNCHANGED collection
  /\ OnlyCrud

CreateMovie(body) ==
  /\ crud.created < MaxCreated
  /\ IF ValidatesCreate(body)
     THEN /\ collection' = collection \cup
               { [_id |-> NewId(crud.created + 1), title |-> body.title,
                  category |-> "Drama",
                  type |-> IF body.type = NoType THEN "movie" ELSE body.type,
                  trailerUrl |-> "t9", featured |-> FALSE,
                  createdAt |-> Cardinality(movieCollection) + crud.created + 1] }
          /\ crud' = [handler |-> "createMovie", id |-> "", status |-> 201,
                      created |-> crud.created + 1]
     ELSE /\ Answered("createMovie", "", errorHandler(ValidationError))
          /\ UNCHANGED collection
  /\ OnlyCrud

UpdateMovie(id, body) ==
  /\ IF ~IsObjectId(id)
     THEN Answered("updateMovie", id, errorHandler(CastError)) /\ UNCHANGED collection
     ELSE IF ~ValidatesUpdate(body)
     THEN Answered("updateMovie", id, errorHandler(ValidationError)) /\ UNCHANGED collection
     ELSE IF \E d \in collection : d._id = id
     THEN /\ collection' = { IF d._id = id
                             THEN [d EXCEPT !.type = body.type, !.featured = body.featured]
                             ELSE d : d \in collection }
          /\ Answered("updateMovie", id, 200)
     ELSE Answered("updateMovie", id, 404) /\ UNCHANGED collection
  /\ OnlyCrud

DeleteMovie(id) ==
  /\ IF ~IsObjectId(id)
     THEN Answered("deleteMovie", id, errorHandler(CastError)) /\ UNCHANGED collection
     ELSE IF \E d \in collection : d._id = id
     THEN /\ collection' = {d \in collection : d._id # id}
          /\ Answered("deleteMovie", id, 200)
     ELSE Answered("deleteMovie", id, 404) /\ UNCHANGED collection
  /\ OnlyCrud

\* The store operation of any of the four rejects: next(error), 500.
StoreOperationFails(handler) ==
  /\ Answered(handler, "", errorHandler([name |-> "MongoServerError", status |-> 0]))
  /\ UNCHANGED collection
  /\ OnlyCrud

\* Every handler of the router, against one upstream.
FrameQueries == { Query("", Undefined, Undefined, "") }

InitFrame ==
  /\ InitProcess
  /\ tmdb = QuietWorld
  /\ norm = NoNorm

NextFrame ==
  \/ \E q \in FrameQueries : StartRequest(1, q)
  \/ Continue(1)
  \/ \E type \in {"movie", "music"} : GetTmdbTrailer(type, "603")
  \/ \E results \in {<<>>, << Video("YouTube", "Trailer", "a") >>} : TrailerPayload(results)
  \/ TrailerAttemptFails([name |-> "FetchError", status |-> 0])
  \/ \E id \in MovieIds : GetMovieById(id)
  \/ \E body \in CreateBodies : CreateMovie(body)
  \/ \E id \in MovieIds, body \in UpdateBodies : UpdateMovie(id, body)
  \/ \E id \in MovieIds : DeleteMovie(id)
  \/ \E handler \in {"getMovieById", "createMovie", "updateMovie", "deleteMovie"} :
       StoreOperationFails(handler)

SpecFrame == InitFrame /\ [][NextFrame]_vars

\* Two listing requests in flight at once, their runs between awaits interleaved.
ConcurrentQueries == { Query("", Undefined, Undefined, ""), Query("db", Undefined, Num(2), "movie") }

InitConcurrent ==
  /\ InitProcess
  /\ tmdb = QuietWorld
  /\ norm = NoNorm

NextConcurrent ==
  \/ \E r \in Requests :
       \/ \E q \in ConcurrentQueries : StartRequest(r, q)
       \/ Continue(r)
  \/ Tick
  \/ ConnectionChange

SpecConcurrent == InitConcurrent /\ [][NextConcurrent]_vars

----------------------------------------------------------------------------
(* One listing request at a time whose awaited promises all settle: every   *)
(* upstream call is bounded by its timeout and its attempts (tmdbFetch),     *)
(* Promise.allSettled waits for settled lookups, and the store query         *)
(* resolves or rejects; the event loop then runs the handler's continuation. *)

FairQueries == { Query("", Undefined, Undefined, ""), Query("db", Undefined, Num(2), "movie") }

InitFair ==
  /\ InitProcess
  /\ tmdb = BusyWorld
  /\ norm = NoNorm

NextFair ==
  \/ \E q \in FairQueries : StartRequest(1, q)
  \/ Continue(1)
  \/ ConnectionChange
  \/ Tick

SpecFair == InitFair /\ [][NextFair]_vars /\ WF_vars(Continue(1))

----------------------------------------------------------------------------
(* Listing requests that differ in their filters, one at a time.  Slot 1    *)
(* runs the requests; slot 2 is an earlier request the upstream path has    *)
(* answered, kept to compare later answers with.                             *)

FilterPairQueries ==
  { FilterQuery("", "", "", "", Undefined),
    FilterQuery("movie", "Action", "RED", "true", Num(2)),
    FilterQuery("series", "", "", "false", Undefined),
    Query("", Num(3), Undefined, "") }

\* More movies in the first listing than any perCategory above the lower clamp
\* cuts off, one series in the second listing.
MixedWorld ==
  [first |-> Long, second |-> <<1>>, rest |-> <<>>, discover |-> <<>>,
   movieGenres |-> <<>>, tvGenres |-> <<>>]

InitFilterPair ==
  /\ InitProcess
  /\ tmdb = MixedWorld
  /\ norm = NoNorm

NextFilterPair ==
  \/ \E q \in FilterPairQueries : StartRequest(1, q)
  \/ Continue(1)
  \/ req[1].res.via = "tmdb" /\ Remember
  \/ ConnectionChange

SpecFilterPair == InitFilterPair /\ [][NextFilterPair]_vars

----------------------------------------------------------------------------
(* Properties *)

\* Request r has been started (its slot holds a request in flight or answered).
Started(r) == req[r].pc # "idle"

\* Request r has been answered.
Done(r) == req[r].pc = "done"

\* This step answers request r.
Answers(r) == req'[r].pc = "done" /\ req'[r] # req[r]

\* C1: a listing request whose query has source=db issues no upstream call,
\* whatever the health state and whether or not an API key is configured.
C1_SourceDbNeverCallsUpstream ==
  \A r \in Requests :
    (Started(r) /\ req[r].query.source = "db") =>
      /\ req[r].calls = 0
      /\ req[r].fetched = 0
      /\ req[r].pc \in {"find", "done"}
      /\ req[r].res.via # "tmdb"

\* A source=db request answered while the key is set and the upstream enabled.
C1_Witness ==
  \E r \in Requests :
    /\ Done(r) /\ req[r].query.source = "db" /\ req[r].res.status = 200
    /\ apiKey /\ ~req[r].tmdbDisabled

\* C2: every listing request that starts inside the cooldown window opened by
\* an earlier upstream failure (now < that failure's now + TMDB_COOLDOWN_MS) is
\* answered without any upstream call, also when the failing request was then
\* served by the store.  (That the failure increments the streak and sets
\* disabledUntil is part of C3_UpstreamFailureAbsorbed.)
C2_NoUpstreamCallInsideCooldown ==
  \A r \in Requests : (Started(r) /\ req[r].inCooldown) => req[r].calls = 0

\* C3: an upstream failure is caught by getMovies, recorded on the health
\* state, and followed by the store/seed path; unless the store query fails
\* too, the request ends in a 200 response from the store or the seed catalog.
C3_UpstreamFailureAbsorbed ==
  [][\A r \in Requests :
       /\ (req'[r].upstreamFailed /\ ~req[r].upstreamFailed) =>
            /\ tmdbFailureStreak' = tmdbFailureStreak + 1
            /\ tmdbDisabledUntil' = req[r].now + TMDB_COOLDOWN_MS
            /\ tmdbDisabledUntil' >= req[r].now
            /\ req'[r].pc \in {"find", "done"}
            /\ req'[r].res.status \in {0, 200}
       /\ (req'[r].pc = "done" /\ req'[r].upstreamFailed /\ ~req'[r].storeFailed) =>
            /\ req'[r].res.status = 200
            /\ req'[r].res.via \in {"store", "seed"}]_vars

\* A request whose upstream attempt failed in the category phase, answered 200.
C3_Witness ==
  \E r \in Requests :
    /\ Done(r) /\ req[r].upstreamFailed /\ req[r].fetched >= 2
    /\ req[r].res.status = 200 /\ req[r].res.count > 0

\* C4: a failure of the store path (store not connected, or the store query
\* failing) is not surfaced: the request is answered 200 from the seed catalog.
C4_StoreFailureFallsToSeed ==
  \A r \in Requests :
    Done(r) =>
      /\ req[r].res.status = 200
      /\ req[r].storeFailed => req[r].res.via = "seed"

\* C5 as stated: every 200 response (upstream, store or seed) leaves the health
\* state reset.
C5_HealthResetAfterAnySuccess ==
  [][\A r \in Requests :
       (Answers(r) /\ req'[r].res.status = 200) =>
         (tmdbFailureStreak' = 0 /\ tmdbDisabledUntil' = 0)]_vars

\* C5 amended: an upstream or store-backed 200 response leaves the health state
\* reset; a seed-backed response does not reset it: it leaves it as it was, or
\* as the failure of the request's own upstream attempt set it.
C5_HealthResetAfterTmdbOrStore ==
  [][\A r \in Requests :
       /\ (Answers(r) /\ req'[r].res.via \in {"tmdb", "store"}) =>
            (req'[r].res.status = 200 /\ tmdbFailureStreak' = 0 /\ tmdbDisabledUntil' = 0)
       /\ (Answers(r) /\ req'[r].res.via = "seed") =>
            \/ UNCHANGED <<tmdbFailureStreak, tmdbDisabledUntil>>
            \/ /\ req'[r].upstreamFailed
               /\ tmdbFailureStreak' = tmdbFailureStreak + 1
               /\ tmdbDisabledUntil' = req'[r].now + TMDB_COOLDOWN_MS]_vars

\* A request whose upstream attempt failed, answered by the store, with the
\* health state reset although a failure had been recorded.
C5_Witness ==
  \E r \in Requests :
    /\ Done(r) /\ req[r].upstreamFailed /\ req[r].res.via = "store"
    /\ cooldownUntil > 0
    /\ tmdbFailureStreak = 0 /\ tmdbDisabledUntil = 0

\* C6: in every 200 response, on all three paths, count is the length of data.
C6_CountIsLength ==
  \A r \in Requests :
    req[r].res.status = 200 => req[r].res.count = Len(req[r].res.data)

\* A store response cut by the limit: fewer records than the collection has.
C6_Witness ==
  \E r \in Requests :
    /\ Done(r) /\ req[r].res.via = "store" /\ req[r].query.type = ""
    /\ req[r].res.count > 0 /\ req[r].res.count < Cardinality(collection)

\* C7: all records of one response come from one source, the one whose branch
\* sent the response; an upstream attempt that failed half-way contributes no
\* record to the store or seed response that follows.
C7_SingleSource ==
  \A r \in Requests :
    req[r].res.status = 200 =>
      \A i \in 1..Len(req[r].res.data) : req[r].res.data[i].origin = req[r].res.via

\* A seed response after an upstream attempt that had received category data.
C7_Witness ==
  \E r \in Requests :
    /\ Done(r) /\ req[r].upstreamFailed /\ req[r].fetched >= 3
    /\ req[r].res.via = "seed" /\ req[r].res.count > 0

\* The number of records of response res in category title.
InCategory(res, title) == Cardinality({i \in 1..Len(res.data) : res.data[i].category = title})

\* The number of featured records of response res.
FeaturedCount(res) == Cardinality({i \in 1..Len(res.data) : res.data[i].featured})

\* C8 as stated: an upstream response with count > 0 has exactly one featured
\* record and it is data[0].
C8_OneFeaturedWhenNonEmpty ==
  \A r \in Requests :
    (req[r].res.via = "tmdb" /\ req[r].res.count > 0) =>
      /\ req[r].res.data[1].featured
      /\ FeaturedCount(req[r].res) = 1

\* C8 amended: in an upstream response a record is featured exactly when it is
\* the first record and belongs to the first category; so there is one featured
\* record, data[0], when the first category returned an item, and none when the
\* first category is empty.
C8_FeaturedIsFirstOfFirstCategory ==
  \A r \in Requests :
    req[r].res.via = "tmdb" =>
      /\ \A i \in 1..Len(req[r].res.data) :
           req[r].res.data[i].featured <=>
             (i = 1 /\ req[r].res.data[i].category = categories[1].title)
      /\ FeaturedCount(req[r].res) = IF tmdb.first # <<>> THEN 1 ELSE 0

\* An upstream response of several categories whose first record is featured.
C8_Witness ==
  \E r \in Requests :
    /\ req[r].res.via = "tmdb" /\ req[r].res.count >= 3
    /\ req[r].res.data[1].featured
    /\ InCategory(req[r].res, categories[1].title) >= 2
    /\ InCategory(req[r].res, categories[2].title) >= 1

\* n clamped to [lo, hi].
Clamp(n, lo, hi) == IF n < lo THEN lo ELSE IF n > hi THEN hi ELSE n

\* The request has entered the upstream path.
OnUpstreamPath(r) == req[r].calls > 0

\* The request has entered the store/seed path.
OnStorePath(r) == req[r].pc \in {"find", "done"} /\ req[r].res.via # "tmdb"

\* C9 as stated: the per-category limit is the perCategory parameter clamped
\* to [6,40], 16 when it is absent or non-numeric, and no category contributes
\* more items than that.
C9_PerCategoryIsClamp ==
  \A r \in Requests :
    LET p == req[r].query.perCategory
        expected == IF p.kind = "num" THEN Clamp(p.v, 6, 40) ELSE 16
    IN OnUpstreamPath(r) =>
         /\ req[r].perCategory = expected
         /\ req[r].res.via = "tmdb" =>
              \A c \in 1..Len(CategoryList(tmdb)) :
                InCategory(req[r].res, CategoryList(tmdb)[c].title) <= expected

\* C9 amended: the per-category limit is 16 when perCategory is absent, empty,
\* non-numeric or 0, and otherwise the parameter clamped to [6,40]; every
\* category contributes its first items up to that limit, never more.
C9_PerCategoryIsClampOrDefault ==
  \A r \in Requests :
    LET p == req[r].query.perCategory
        expected == IF p.kind = "num" /\ p.v # 0 THEN Clamp(p.v, 6, 40) ELSE 16
    IN OnUpstreamPath(r) =>
         /\ req[r].perCategory = expected
         /\ req[r].res.via = "tmdb" =>
              \A c \in 1..Len(CategoryList(tmdb)) :
                LET cat == CategoryList(tmdb)[c]
                IN InCategory(req[r].res, cat.title)
                     = Min(Len(ResultsOf(tmdb, cat)), expected)

\* An upstream response in which perCategory=3 cut a longer category to 6 items.
C9_Witness ==
  \E r \in Requests :
    /\ req[r].res.via = "tmdb" /\ req[r].query.perCategory = Num(3)
    /\ Len(tmdb.first) > 6
    /\ InCategory(req[r].res, categories[1].title) = 6

\* C10 as stated: on the store/seed path the limit is the request's limit
\* clamped to [1,500], 200 when absent, for every integer including 0 and the
\* negative ones, and the response has no more records than that.
C10_LimitIsClamp ==
  \A r \in Requests :
    LET l == req[r].query.limit
        expected == IF l.kind = "undefined" THEN 200 ELSE Clamp(l.v, 1, 500)
    IN (OnStorePath(r) /\ l.kind \in {"undefined", "num"}) =>
         /\ req[r].cappedLimit = expected
         /\ req[r].res.status = 200 => req[r].res.count <= expected

\* C10 amended: the limit is 200 when absent, 50 when it is 0, empty or
\* non-numeric, and otherwise the request's limit clamped to [1,500]; the
\* response has no more records than that.
C10_LimitIsClampOrDefault ==
  \A r \in Requests :
    LET l == req[r].query.limit
        expected == CASE l.kind = "undefined" -> 200
                      [] l.kind = "num" /\ l.v # 0 -> Clamp(l.v, 1, 500)
                      [] OTHER -> 50
    IN OnStorePath(r) =>
         /\ req[r].cappedLimit = expected
         /\ req[r].res.status = 200 => req[r].res.count <= expected

\* A store response cut to one record by a negative limit.
C10_Witness ==
  \E r \in Requests :
    /\ Done(r) /\ req[r].res.via = "store" /\ req[r].query.limit = Num(-5)
    /\ req[r].res.count = 1 /\ Cardinality(collection) > 1

\* Seed record m passes the filters given in query q: type and category
\* exactly, the search text as a case-insensitive substring of the title,
\* featured when featured=true is asked.
SeedSatisfies(m, q) ==
  /\ q.type # "" => m.type = q.type
  /\ q.category # "" => m.category = q.category
  /\ q.search # "" => Includes(LowerCase(m.title), LowerCase(q.search))
  /\ q.featured = "true" => m.featured

\* C11: in a seed-backed response every record matches the given type and
\* category exactly and contains the search text case-insensitively in its
\* title, and the response is the seed records passing the given filters, in
\* seed order, up to the limit.
C11_SeedFilterExact ==
  \A r \in Requests :
    req[r].res.via = "seed" =>
      LET q == req[r].query
          data == req[r].res.data
          expected == Slice(SelectSeq(seedMovies, LAMBDA m : SeedSatisfies(m, q)),
                            req[r].cappedLimit)
      IN /\ \A i \in 1..Len(data) :
              /\ q.type # "" => data[i].type = q.type
              /\ q.category # "" => data[i].category = q.category
              /\ q.search # "" => Includes(LowerCase(data[i].title), LowerCase(q.search))
         /\ Len(data) = Len(expected)
         /\ \A i \in 1..Len(data) : data[i].title = expected[i].title

\* A seed response to type=movie, search=RED: the two movies with Red in the title.
C11_Witness ==
  \E r \in Requests :
    /\ req[r].res.via = "seed" /\ req[r].query.type = "movie"
    /\ req[r].query.search = "RED" /\ req[r].query.limit = Undefined
    /\ req[r].res.count = 2

\* C12: without a search text, a seed record is in the seed-backed response
\* exactly when, stored as a document, it matches the store filter built from
\* the same query (type and category trimmed, featured=true and featured=false
\* both applied).
C12_SeedFilterEquivalentToStore ==
  \A r \in Requests :
    (/\ req[r].res.via = "seed"
     /\ req[r].query.search = ""
     /\ req[r].cappedLimit >= Len(seedMovies)) =>
      \A i \in 1..Len(seedMovies) :
        (\E j \in 1..Len(req[r].res.data) : req[r].res.data[j].title = seedMovies[i].title)
          <=> FilterMatches(seedMovies[i], BuildFilter(req[r].query))

\* C13: with no API key configured no listing request issues an upstream
\* call or records an upstream failure, the health state stays untouched, and
\* a seed-backed answer to {type: movie, limit: 5} has at most 5 records, all
\* from the seed catalog and all of type movie.
C13_NoKeyNeverCallsUpstream ==
  ~apiKey =>
    /\ \A r \in Requests : req[r].calls = 0 /\ ~req[r].upstreamFailed
    /\ tmdbFailureStreak = 0 /\ tmdbDisabledUntil = 0
    /\ \A r \in Requests :
         (/\ req[r].res.via = "seed"
          /\ req[r].query = Query("", Undefined, Num(5), "movie")) =>
           /\ req[r].res.count <= 5
           /\ \A i \in 1..Len(req[r].res.data) :
                /\ req[r].res.data[i].origin = "seed"
                /\ req[r].res.data[i].type = "movie"

\* No key, store unreachable: {type: movie, limit: 5} answered with 5 of the 6 seed movies.
C13_Witness ==
  /\ ~apiKey
  /\ \E r \in Requests :
       /\ req[r].res.via = "seed"
       /\ req[r].query = Query("", Undefined, Num(5), "movie")
       /\ req[r].res.count = 5

\* The trailer lookup was called with a type of movie or series and an id.
TrailerValid == trailer.type \in {"movie", "series"} /\ trailer.id # ""

\* Some video of the payload is a YouTube trailer, teaser or clip.
SomeVideoMatches(results) ==
  \E i \in 1..Len(results) :
    results[i].site = "YouTube" /\ results[i].type \in {"Trailer", "Teaser", "Clip"}

\* C14: the trailer lookup answers 400 for a type other than movie/series or
\* a missing id, with or without an API key and with no upstream call;
\* otherwise 503 without an API key, with no upstream call; otherwise, when
\* the upstream answered, 404 if no video matches and 200 with a non-empty
\* trailerUrl if one does.
C14_TrailerStatusOrder ==
  trailer.pc = "done" =>
    /\ ~TrailerValid => (trailer.status = 400 /\ trailer.calls = 0)
    /\ (TrailerValid /\ ~apiKey) => (trailer.status = 503 /\ trailer.calls = 0)
    /\ (TrailerValid /\ apiKey /\ trailer.answered) =>
         IF SomeVideoMatches(trailer.results)
         THEN trailer.status = 200 /\ trailer.trailerUrl # <<>>
         ELSE trailer.status = 404

\* type=music with no API key configured: answered 400, not 503.
C14_Witness ==
  /\ trailer.pc = "done" /\ trailer.type = "music" /\ trailer.id = "603"
  /\ ~apiKey /\ trailer.status = 400

\* C15: a trailer lookup with a valid type and id ends in 200, 404 or 503,
\* whatever the upstream does.
C15_TrailerOnlyDocumentedStatuses ==
  (trailer.pc = "done" /\ TrailerValid) => trailer.status \in {200, 404, 503}

\* The source an id names: tmdb-... is upstream, seed-... is the seed
\* catalog, anything else is a store document id.
ParseSource(id) ==
  IF id[1] = "tmdb" THEN "tmdb" ELSE IF id[1] = "seed" THEN "seed" ELSE "store"

C17_IdsUniqueInResponse ==
  \A r \in Requests :
    \A i, j \in 1..Len(req[r].res.data) :
      req[r].res.data[i].id = req[r].res.data[j].id => i = j

\* The set of ids of a response's records.
IdSet(data) == {data[i].id : i \in 1..Len(data)}

\* Slot 2 holds an answered call and slot 1 the answer to the next call, made
\* with the same query, with the store's connectivity unchanged, the store
\* answering both times it was asked, and the upstream not seen failing in
\* one call and succeeding in the other.
TwoCallsInARow ==
  /\ req[2].pc = "done" /\ req[1].pc = "done"
  /\ req[2].now <= req[1].now
  /\ req[1].query = req[2].query
  /\ ~req[1].storeFailed /\ ~req[2].storeFailed
  /\ ~(req[2].upstreamFailed /\ req[1].res.via = "tmdb")
  /\ ~(req[1].upstreamFailed /\ req[2].res.via = "tmdb")

C19_TypeIsMovieOrSeries ==
  norm.fn # "none" =>
    /\ norm.output.type \in {"movie", "series"}
    /\ (norm.fn \in {"normalizeMovie", "normalizeSeedMovie"}
          /\ norm.input.type \notin {"movie", "series"}) => norm.output.type = "movie"

\* C20: a listing request that starts goes to the upstream exactly when an
\* API key is configured, source is not db, and its start time is not before
\* tmdbDisabledUntil (at now = tmdbDisabledUntil the upstream is eligible).
C20_UpstreamAttemptedIffEligible ==
  [][\A r \in Requests :
       (req[r].pc \in {"idle", "done"} /\ req'[r] # req[r]) =>
         (req'[r].calls > 0 <=>
            (apiKey /\ req'[r].query.source # "db" /\ now >= tmdbDisabledUntil))]_vars

\* A request started at the very instant the cooldown ends calls the upstream.
C20_Witness ==
  \E r \in Requests :
    /\ req[r].pc = "genreMovie" /\ req[r].calls = 1
    /\ tmdbDisabledUntil > 0
    /\ req[r].now = tmdbDisabledUntil

\* The first video of the payload on YouTube and of the given kind is at index i.
FirstOfKind(results, kind, i) ==
  /\ i \in 1..Len(results)
  /\ results[i].site = "YouTube" /\ results[i].type = kind
  /\ \A j \in 1..(i - 1) : ~(results[j].site = "YouTube" /\ results[j].type = kind)

HasKind(results, kind) == \E i \in 1..Len(results) : FirstOfKind(results, kind, i)

\* C25: from the videos the upstream answered, the lookup takes the first
\* YouTube Trailer in result order, else the first YouTube Teaser, else the
\* first YouTube Clip, and gives its embed URL; with none of these it gives
\* the empty string, whatever other videos there are.
C25_TrailerKindPriority ==
  (trailer.pc = "done" /\ trailer.answered) =>
    LET results == trailer.results
        url == trailer.trailerUrl
    IN /\ \A i \in 1..Len(results) :
            /\ FirstOfKind(results, "Trailer", i) => url = EmbedUrl(results[i].key)
            /\ (FirstOfKind(results, "Teaser", i) /\ ~HasKind(results, "Trailer"))
                 => url = EmbedUrl(results[i].key)
            /\ (FirstOfKind(results, "Clip", i) /\ ~HasKind(results, "Trailer")
                  /\ ~HasKind(results, "Teaser")) => url = EmbedUrl(results[i].key)
       /\ (~HasKind(results, "Trailer") /\ ~HasKind(results, "Teaser")
             /\ ~HasKind(results, "Clip")) => url = <<>>

\* A payload listing a Clip before a Teaser: the Teaser is taken.
C25_Witness ==
  /\ trailer.pc = "done" /\ trailer.answered
  /\ Len(trailer.results) = 2
  /\ trailer.results[1].type = "Clip" /\ trailer.results[2].type = "Teaser"
  /\ trailer.trailerUrl = EmbedUrl("t")

\* C21: a call of tmdbFetch issues at most `attempts` requests; when it
\* returns, it returns the payload of the attempt that was answered and every
\* earlier attempt failed; the waits between failed attempts are 400ms, 800ms,
\* ... with none after the last; and when it throws after its attempts it has
\* issued all of them and throws the error of the last one.
C21_BoundedAttemptsWithBackoff ==
  fetch.pc # "idle" =>
    /\ fetch.requests <= fetch.attempts
    /\ \A i \in 1..Len(fetch.waits) : fetch.waits[i] = 400 * i
    /\ fetch.pc = "returned" =>
         /\ Len(fetch.failures) = fetch.requests - 1
         /\ Len(fetch.waits) = fetch.requests - 1
         /\ fetch.payload = ParseBody(fetch.response)
    /\ (fetch.pc = "thrown" /\ apiKey) =>
         /\ fetch.requests = fetch.attempts
         /\ Len(fetch.failures) = fetch.attempts
         /\ Len(fetch.waits) = fetch.attempts - 1
         /\ fetch.thrown = fetch.failures[Len(fetch.failures)]

\* The default two attempts, both failed, differently: one wait of 400ms, the
\* second error thrown.
C21_Witness ==
  /\ fetch.pc = "thrown" /\ fetch.attempts = TMDB_ATTEMPTS
  /\ fetch.requests = 2 /\ fetch.waits = <<400>>
  /\ fetch.failures = <<"FetchError", "AbortError">>
  /\ fetch.thrown = "AbortError"

\* C22: tmdbFetch returns a payload only from an attempt answered 2xx with a
\* body that parses as JSON.
C22_MalformedBodyIsFailure ==
  fetch.pc = "returned" => (fetch.response.ok /\ fetch.response.json)

\* The number of records of the categories before category c.
RECURSIVE Offset(_, _)
Offset(catResults, c) ==
  IF c <= 1 THEN 0 ELSE Offset(catResults, c - 1) + Len(catResults[c - 1].results)

\* The keys type:id of the first three items of the first two categories.
EnrichmentSubset(catResults) ==
  { <<catResults[p[1]].type, catResults[p[1]].results[p[2]]>> :
      p \in { q \in (1..Len(catResults)) \X (1..3) :
                q[1] <= 2 /\ q[2] <= Len(catResults[q[1]].results) } }

\* What C23 says of a request the trailer lookups of which have settled.
TrailersTolerated(r) ==
  LET cr == categoryResults(tmdb, req[r].perCategory)
      data == req[r].res.data
  IN /\ req[r].res.status = 200 /\ req[r].res.via = "tmdb"
     /\ ~req[r].upstreamFailed
     /\ req[r].calls <= 2 + Len(cr) + 6
     /\ req[r].trailerMap \subseteq EnrichmentSubset(cr)
     /\ \A c \in 1..Len(cr) : \A i \in 1..Len(cr[c].results) :
          data[Offset(cr, c) + i].trailerUrl =
            IF <<cr[c].type, cr[c].results[i]>> \in req[r].trailerMap
            THEN TrailerUrlOf(<<cr[c].type, cr[c].results[i]>>) ELSE ""

\* C23: when the trailer lookups settle, whichever of them failed, the request
\* answers 200 with upstream data and the health state is reset; at most six
\* lookups were issued, for the first three items of the first two
\* categories; an item has its resolved URL if its lookup succeeded and the
\* empty string otherwise.
C23_TrailerFailuresTolerated ==
  [][\A r \in Requests :
       req[r].pc = "trailers" /\ req'[r].pc # "trailers" =>
         /\ tmdbFailureStreak' = 0 /\ tmdbDisabledUntil' = 0
         /\ TrailersTolerated(r)']_vars

\* Six lookups issued, two of them resolved, four failed or without a video.
C23_Witness ==
  \E r \in Requests :
    /\ req[r].pc = "done" /\ req[r].res.via = "tmdb"
    /\ Cardinality(EnrichmentSubset(categoryResults(tmdb, req[r].perCategory))) = 6
    /\ req[r].calls = 2 + Len(categoryResults(tmdb, req[r].perCategory)) + 6
    /\ Cardinality(req[r].trailerMap) = 2

\* C24: within one upstream attempt, category listings are requested only
\* after both genre maps have been received, trailer lookups only after every
\* category listing has been received, and an attempt that failed has issued
\* no trailer lookup and sent no upstream response.
C24_FetchPhasesOrdered ==
  \A r \in Requests :
    LET n == Len(CategoryList(tmdb))
    IN /\ req[r].pc = "genreMovie" => (req[r].calls = 1 /\ req[r].fetched = 0)
       /\ req[r].pc = "genreTv" => (req[r].calls = 2 /\ req[r].fetched = 1)
       /\ req[r].calls > 2 => req[r].fetched >= 2
       /\ req[r].calls > 2 + n => req[r].fetched >= 2 + n
       /\ req[r].upstreamFailed => (req[r].calls <= 2 + n /\ req[r].res.via # "tmdb")

\* An attempt that failed while the category listings were being fetched.
C24_Witness ==
  \E r \in Requests :
    /\ req[r].upstreamFailed /\ req[r].pc = "done"
    /\ req[r].calls = 2 + Len(CategoryList(tmdb)) /\ req[r].fetched >= 3

\* C26: a step of the trailer endpoint or of a single-item or CRUD handler
\* leaves tmdbFailureStreak and tmdbDisabledUntil as they are, and a trailer
\* lookup with a valid type and id and an API key calls the upstream whether
\* or not the cooldown is running.
C26_HealthChangedOnlyByListing ==
  [][/\ (trailer' # trailer \/ crud' # crud \/ collection' # collection) =>
          (tmdbFailureStreak' = tmdbFailureStreak /\ tmdbDisabledUntil' = tmdbDisabledUntil)
     /\ (trailer.pc \in {"idle", "done"} /\ trailer' # trailer
         /\ trailer'.type \in {"movie", "series"} /\ trailer'.id # "" /\ apiKey) =>
          (trailer'.pc = "fetching" /\ trailer'.calls = 1)]_vars

\* The trailer endpoint's upstream call failed during the cooldown a listing
\* failure started: the cooldown and the streak of 1 are still there.
C26_Witness ==
  /\ trailer.pc = "done" /\ trailer.status = 500 /\ trailer.calls = TMDB_ATTEMPTS
  /\ tmdbFailureStreak = 1 /\ tmdbDisabledUntil > now
  /\ req[1].upstreamFailed

\* Request r gets its answer in this step.
Completes(r) == req'[r] # req[r] /\ req'[r].pc = "done"

\* The answer to r is a 200 whose records all come from the one source named.
SingleSource200(r) ==
  /\ req[r].res.status = 200
  /\ \A i \in 1..Len(req[r].res.data) : req[r].res.data[i].origin = req[r].res.via

\* What the races leave of the health state: the streak is not negative, a
\* change of tmdbDisabledUntil is to 0 or to the start time of a request whose
\* upstream attempt failed plus the cooldown, and a request that completes
\* from the upstream or the store leaves the health state it wrote, 0 and 0.
HealthTolerates ==
  /\ tmdbFailureStreak' >= 0
  /\ tmdbDisabledUntil' # tmdbDisabledUntil =>
       \/ tmdbDisabledUntil' = 0
       \/ \E r \in Requests : /\ req'[r].upstreamFailed /\ req'[r] # req[r]
                              /\ tmdbDisabledUntil' = req'[r].now + TMDB_COOLDOWN_MS
  /\ \A r \in Requests :
       (Completes(r) /\ req'[r].res.via \in {"tmdb", "store"}) =>
         (tmdbFailureStreak' = 0 /\ tmdbDisabledUntil' = 0)

\* C27: under every interleaving of two overlapping listing requests, a
\* request that completes has one single-source 200 response, and the health
\* state tolerates the races (last writer wins).
C27_RacesTolerated ==
  [][/\ \A r \in Requests : Completes(r) => SingleSource200(r)'
     /\ HealthTolerates]_vars

\* The same, for the requests whose store query did not reject.
RacesToleratedUnlessStoreRejects ==
  [][/\ \A r \in Requests : (Completes(r) /\ ~req'[r].storeFailed) => SingleSource200(r)'
     /\ HealthTolerates]_vars

\* C28: between handler steps, tmdbFailureStreak is 0 exactly when
\* tmdbDisabledUntil is 0, and with a streak of 1 or more tmdbDisabledUntil
\* is the cooldown end the latest failing request set.
C28_HealthVariablesTogether ==
  /\ tmdbFailureStreak = 0 <=> tmdbDisabledUntil = 0
  /\ tmdbFailureStreak >= 1 =>
       /\ tmdbDisabledUntil = cooldownUntil
       /\ tmdbDisabledUntil >= ClockStep + TMDB_COOLDOWN_MS

\* Two failures in a row, the second after the first cooldown ran out.
C28_Witness ==
  /\ tmdbFailureStreak = 2
  /\ tmdbDisabledUntil > ClockStep + TMDB_COOLDOWN_MS

\* The handler of request r is between its first statement and its outcome.
Running(r) == req[r].pc \notin {"idle", "done"}

\* What request r has produced so far is consistent with its position.
OneOutcome(r) ==
  /\ Running(r) \/ req[r].pc = "idle" => req[r].outcomes = <<>>
  /\ req[r].pc = "done" =>
       \/ req[r].outcomes = <<"json">> /\ req[r].res.status = 200
       \/ req[r].outcomes = <<"next">> /\ req[r].res = ErrorResponse
  /\ req[r].res.via = "tmdb" => ~req[r].upstreamFailed /\ req[r].cappedLimit = 0

\* C29: every listing request eventually produces exactly one outcome, one
\* 200 JSON response or one next(error), never both and never two; after the
\* upstream path's 200 the store/seed path has not run, and while the fallback
\* of a failed upstream attempt is still running nothing has been sent.
C29_ExactlyOneOutcome ==
  /\ [](\A r \in SeqRequests : OneOutcome(r))
  /\ \A r \in SeqRequests : Running(r) ~> req[r].pc = "done"

\* The upstream attempt threw, the store query was awaited, and the request
\* ended with its single response.
C29_Witness ==
  /\ req[1].pc = "done"
  /\ req[1].upstreamFailed
  /\ req[1].res.via = "store"
  /\ req[1].outcomes = <<"json">>

\* Requests a and b were both served by the upstream path, with the same
\* perCategory parameter and the same answers to their trailer lookups.
SameUpstreamInputs(a, b) ==
  /\ req[a].res.via = "tmdb"
  /\ req[b].res.via = "tmdb"
  /\ req[a].query.perCategory = req[b].query.perCategory
  /\ req[a].trailerMap = req[b].trailerMap

\* The store or seed response of request r holds only records its filters let
\* through, and no more than its limit.
FiltersRestrict(r) ==
  LET q == req[r].query
      data == req[r].res.data
  IN /\ req[r].res.via = "seed" =>
          /\ \A i \in 1..Len(data) : SeedSatisfies(data[i], q)
          /\ Len(data) <= cappedLimit(q)
     /\ req[r].res.via = "store" =>
          /\ \A i \in 1..Len(data) : FilterMatches(data[i], BuildFilter(q))
          /\ Len(data) <= cappedLimit(q)

\* C30: two requests served by the upstream path with the same perCategory
\* value against the same upstream data get the same data list whatever their
\* search, category, type, featured and limit parameters are, while a store or
\* seed response holds only records that pass those filters.
C30_UpstreamIgnoresFilters ==
  /\ \A a, b \in Requests :
       SameUpstreamInputs(a, b) =>
         /\ req[a].res.data = req[b].res.data
         /\ req[a].res.count = req[b].res.count
  /\ \A r \in Requests : FiltersRestrict(r)

\* A type=movie request and a type=series request with different limits were
\* both served by the upstream path, and the type=movie one got a series record.
C30_Witness ==
  /\ SameUpstreamInputs(1, 2)
  /\ req[1].query.type = "movie"
  /\ req[2].query.type = "series"
  /\ req[1].query.limit # req[2].query.limit
  /\ \E i \in 1..Len(req[1].res.data) : req[1].res.data[i].type = "series"

====
